---- MODULE Spec2Model ----
(***************************************************************************)
(* A model of the two terminal casino games of this repository:            *)
(* blackjack.py (shoe, hand value, round state machine, bankroll ledger,   *)
(* persistence) and roulette.py.                                           *)
(*                                                                         *)
(* One step of the model is what the program does between two reads of     *)
(* the terminal (or between two calls of play_round's body).  The shuffle  *)
(* of the shoe is modelled by drawing any card that is still in the shoe.  *)
(***************************************************************************)
EXTENDS Integers, Sequences, FiniteSets, TLC

----------------------------------------------------------------------------
(* Bounds of the model *)

\* largest bankroll found in the persisted record when the game starts
MaxLoad == 1
\* typed bet amounts range over -1..MaxBet and one more than the bankroll
MaxBet == 1
\* settled rounds per run of the game
MaxRounds == 1
\* the player asks for a card ('h') at most MaxHits times in a round
MaxHits == 1
\* longest hand given to calculate_value in the hand-value specification
MaxHandLen == 4
\* the shoe specification builds shoes of 1..MaxDecks decks
MaxDecks == 5
\* roulette: typed amounts range over -1..MaxStake and one more than the
\* bankroll
MaxStake == 1
\* roulette: bets accepted in one run of the game
MaxBets == 2
\* the load specification: each counter of a record ranges over 0..MaxCount
MaxCount == 1

----------------------------------------------------------------------------
(* Cards: blackjack.py 12-31 *)

SUITS == {"S", "H", "D", "C"}

RANKS == {"2", "3", "4", "5", "6", "7", "8", "9", "10", "J", "Q", "K", "A"}

\* A bound of the model: its shoe is built from these of the suits and ranks
\* only (the 104 cards of the game are out of reach of exhaustive search).
ShoeSuits == {s \in SUITS : s = "S"}

ShoeRanks == {r \in RANKS : r \in {"6", "K", "A"}}

Card(suit, rank) == [suit |-> suit, rank |-> rank]

ShoeCards == {Card(s, r) : s \in ShoeSuits, r \in ShoeRanks}

\* int(self.rank) of a numeral rank
RankInt(rank) ==
    CASE rank = "2" -> 2 [] rank = "3" -> 3 [] rank = "4" -> 4
      [] rank = "5" -> 5 [] rank = "6" -> 6 [] rank = "7" -> 7
      [] rank = "8" -> 8 [] rank = "9" -> 9 [] rank = "10" -> 10

\* Card.value
value(card) ==
    IF card.rank \in {"J", "Q", "K"} THEN 10
    ELSE IF card.rank = "A" THEN 11
    ELSE RankInt(card.rank)

----------------------------------------------------------------------------
(* Hand: blackjack.py 55-93 *)

\* the for loop of calculate_value over cards[i..]: <<value, aces>>
RECURSIVE SumCards(_, _, _, _)
SumCards(cards, i, v, aces) ==
    IF i > Len(cards) THEN <<v, aces>>
    ELSE IF cards[i].rank = "A"
         THEN SumCards(cards, i + 1, v + 11, aces + 1)
         ELSE SumCards(cards, i + 1, v + value(cards[i]), aces)

\* mutant of AdjustAces: one ace at most is counted as 1
AdjustAcesOnce(v, aces) ==
    IF v > 21 /\ aces > 0 THEN v - 10 ELSE v

\* the while loop of calculate_value
RECURSIVE AdjustAces(_, _)
AdjustAces(v, aces) ==
    IF v > 21 /\ aces > 0 THEN AdjustAces(v - 10, aces - 1) ELSE v

\* the while loop on the <<value, aces>> the for loop ended with
Adjusted(s) == AdjustAces(s[1], s[2])

calculate_value(cards) == Adjusted(SumCards(cards, 1, 0, 0))

is_blackjack(cards) ==
    Len(cards) = 2 /\ calculate_value(cards) = 21

is_busted(cards) ==
    calculate_value(cards) > 21

----------------------------------------------------------------------------
(* Deck: blackjack.py 33-53.  cards is the number of copies left of each  *)
(* card; the order random.shuffle gives them is drawn card by card at      *)
(* pop().  The shoe of the model is smaller than the reshuffle threshold   *)
(* of 10 when it holds fewer than 10 cards in all: every deal then         *)
(* rebuilds it first.                                                      *)

\* the num_decks BlackjackGame.__init__ passes to Deck
num_decks == 2

\* the cards of one deck, built by the loops of Deck.reset (42-45): 52 in
\* the game, the cards of ShoeCards in the model
CardsPerDeck == Cardinality(ShoeCards)

\* Deck.reset
reset(d) == [d EXCEPT !.cards = [c \in ShoeCards |-> d.num_decks]]

\* Deck.__init__
Deck(n) == reset([cards |-> [c \in ShoeCards |-> 0], num_decks |-> n])

RECURSIVE SumOver(_, _)
\* f[c] and the sum of f over the rest of S
SumWith(f, S, c) == f[c] + SumOver(f, S \ {c})

SumOver(f, S) ==
    IF S = {} THEN 0 ELSE SumWith(f, S, CHOOSE x \in S : TRUE)

\* len(self.cards)
DeckLen(d) == SumOver(d.cards, DOMAIN d.cards)

\* mutant of reshuffles: the shoe is rebuilt one card later
reshuffles_below_9(d) == DeckLen(d) < 9

\* the condition at the head of Deck.deal (50)
reshuffles(d) == DeckLen(d) < 10

\* the shoe self.cards.pop() is called on
Reshuffled(d) == IF reshuffles(d) THEN reset(d) ELSE d

\* card c can be the one self.cards.pop() returns
CanDeal(d, c) == Reshuffled(d).cards[c] > 0

\* the shoe after Deck.deal returned card c
deal(d, c) == [Reshuffled(d) EXCEPT !.cards[c] = @ - 1]

\* the history entry of a call of Deck.deal on shoe d that gave card c to
\* hand to
DealCall(d, to, c) == [to |-> to, card |-> c, rebuilt |-> reshuffles(d)]

----------------------------------------------------------------------------
(* Player: blackjack.py 95-134 *)

ZeroStats == [wins |-> 0, losses |-> 0, pushes |-> 0, blackjacks |-> 0]

DefaultBankroll == 1000

\* mutant of place_bet_ok: a bet above the bankroll is accepted
place_bet_ok_nolimit(amount, funds) ==
    ~(amount <= 0)

\* Player.place_bet returns True
place_bet_ok(amount, funds) ==
    ~(amount > funds) /\ ~(amount <= 0)

----------------------------------------------------------------------------
VARIABLES
    pc,            \* where the program waits
    bankroll,      \* player.bankroll
    stats,         \* player.stats
    playerCards,   \* player.hand.cards
    bet,           \* player.hand.bet
    dealerCards,   \* dealer_hand.cards
    deck,          \* deck.cards
    file,          \* blackjack_stats.json
    input,         \* the last line read from the terminal
    round,         \* history: bankroll and stats when play_round was entered,
                   \* the accepted wager, doubled, the call site of
                   \* determine_winner and the branch it took
    rounds,        \* history: rounds settled so far
    exitBy,        \* history: how run() left its loop
    total,         \* hand-value specification: what calculate_value returned
                   \* for playerCards
    dealt,         \* history: the calls of Deck.deal of this round, in order:
                   \* who got the card, the card, was the shoe rebuilt
    current_bets,  \* roulette: self.current_bets
    placed,        \* roulette, history: bets accepted so far
    spun           \* roulette, history: <<result>> when the last pass of
                   \* run's loop was a spin with bets, <<>> otherwise

vars == <<pc, bankroll, stats, playerCards, bet, dealerCards, deck, file,
          input, round, rounds, exitBy, total, dealt, current_bets, placed,
          spun>>

----------------------------------------------------------------------------
(* Ledger: Player.win, Player.lose, Player.push (blackjack.py 114-130).    *)
(* Each gives the bankroll and the stats after the call.                   *)

\* mutant of win: the blackjack counter follows every win
win_always_blackjack(funds, st, cards, amount) ==
    [bankroll |-> funds + amount,
     stats |-> [st EXCEPT !.wins = @ + 1, !.blackjacks = @ + 1]]

win(funds, st, cards, amount) ==
    [bankroll |-> funds + amount,
     stats |-> [st EXCEPT !.wins = @ + 1,
                          !.blackjacks = IF is_blackjack(cards) THEN @ + 1 ELSE @]]

lose(funds, st) ==
    [bankroll |-> funds, stats |-> [st EXCEPT !.losses = @ + 1]]

\* mutant of push: the wager is not returned
push_keeps_wager(funds, st, wager) ==
    [bankroll |-> funds, stats |-> [st EXCEPT !.pushes = @ + 1]]

push(funds, st, wager) ==
    [bankroll |-> funds + wager, stats |-> [st EXCEPT !.pushes = @ + 1]]

----------------------------------------------------------------------------
(* Persistence: blackjack.py 162-180 *)

NoFile == [kind |-> "missing", bankroll |-> 0, stats |-> ZeroStats]

\* mutant of Saved: the counters are not written
Saved_without_stats(funds, st) ==
    [kind |-> "valid", bankroll |-> funds, stats |-> ZeroStats]

\* what save_stats writes
Saved(funds, st) == [kind |-> "valid", bankroll |-> funds, stats |-> st]

\* the counters of the records an earlier run has saved
LoadedStats == [wins |-> 2, losses |-> 1, pushes |-> 1, blackjacks |-> 1]

\* the records the model starts from
InitialFiles ==
    {NoFile} \cup {Saved(b, LoadedStats) : b \in 0..MaxLoad}

\* data.get(key, default) of the object json.load returned
Get(data, key, default) ==
    IF key \in DOMAIN data THEN data[key] ELSE default

\* mutant of load_stats: the counters of the record are not taken
load_stats_bankroll_only(f) ==
    IF f.kind = "valid"
    THEN [bankroll |-> Get(f, "bankroll", DefaultBankroll),
          stats |-> ZeroStats]
    ELSE [bankroll |-> DefaultBankroll, stats |-> ZeroStats]

\* Player() followed by load_stats: bankroll and stats after construction.
\* A record of kind "valid" is a JSON object; the file is missing (164),
\* or json.load or data.get raised and the bare except passed (170-171),
\* for every other kind.
load_stats(f) ==
    IF f.kind = "valid"
    THEN [bankroll |-> Get(f, "bankroll", DefaultBankroll),
          stats |-> Get(f, "stats", ZeroStats)]
    ELSE [bankroll |-> DefaultBankroll, stats |-> ZeroStats]

----------------------------------------------------------------------------
(* BlackjackGame.determine_winner: blackjack.py 276-314 *)

\* mutant of Branch: the totals are compared before the blackjacks
BranchTotalsFirst(pCards, dCards) ==
    LET pv == calculate_value(pCards)
        dv == calculate_value(dCards)
    IN  IF is_busted(pCards) THEN 4
        ELSE IF is_busted(dCards) THEN 5
        ELSE IF pv > dv THEN 6
        ELSE IF dv > pv THEN 7
        ELSE IF is_blackjack(pCards) /\ is_blackjack(dCards) THEN 1
        ELSE IF is_blackjack(pCards) THEN 2
        ELSE IF is_blackjack(dCards) THEN 3
        ELSE 8

\* the if/elif chain (285-314) on the values of its tests: the branch that
\* is taken, 1..8 from the top
BranchOf(player_blackjack, dealer_blackjack, player_busted, dealer_busted, player_value, dealer_value) ==
    IF player_blackjack /\ dealer_blackjack THEN 1
    ELSE IF player_blackjack THEN 2
    ELSE IF dealer_blackjack THEN 3
    ELSE IF player_busted THEN 4
    ELSE IF dealer_busted THEN 5
    ELSE IF player_value > dealer_value THEN 6
    ELSE IF dealer_value > player_value THEN 7
    ELSE 8

\* the branch determine_winner takes for two hands
Branch(pCards, dCards) ==
    BranchOf(is_blackjack(pCards), is_blackjack(dCards),
             is_busted(pCards), is_busted(dCards),
             calculate_value(pCards), calculate_value(dCards))

\* int(self.player.hand.bet * 2.5)
blackjack_payout(wager) == (wager * 25) \div 10

\* self.player.hand.bet * 2
win_amount(wager) == wager * 2

\* the body of branch b: bankroll and stats after it
BranchBody(b, funds, st, pCards, wager) ==
    CASE b = 1 -> push(funds, st, wager)
      [] b = 2 -> win(funds, st, pCards, blackjack_payout(wager))
      [] b = 3 -> lose(funds, st)
      [] b = 4 -> lose(funds, st)
      [] b = 5 -> win(funds, st, pCards, win_amount(wager))
      [] b = 6 -> win(funds, st, pCards, win_amount(wager))
      [] b = 7 -> lose(funds, st)
      [] b = 8 -> push(funds, st, wager)

\* bankroll and stats after determine_winner
determine_winner(funds, st, pCards, wager, dCards) ==
    BranchBody(Branch(pCards, dCards), funds, st, pCards, wager)

----------------------------------------------------------------------------
(* History of the round in progress *)

NoRound(funds, st) ==
    [bankroll |-> funds, stats |-> st, wager |-> 0, doubled |-> FALSE,
     via |-> "none", branch |-> 0]

Line(cmd, n) == [cmd |-> cmd, amount |-> n]

----------------------------------------------------------------------------
(* Blackjack: the state after BlackjackGame() *)

Init ==
    \E f \in InitialFiles :
        /\ file = f
        /\ bankroll = load_stats(f).bankroll
        /\ stats = load_stats(f).stats
        /\ pc = "start"
        /\ playerCards = <<>>
        /\ bet = 0
        /\ dealerCards = <<>>
        /\ deck = Deck(num_decks)
        /\ input = Line("none", 0)
        /\ round = NoRound(load_stats(f).bankroll, load_stats(f).stats)
        /\ rounds = 0
        /\ exitBy = "none"
        /\ total = 0
        /\ dealt = <<>>
        /\ current_bets = <<>>
        /\ placed = 0
        /\ spun = <<>>

\* the head of play_round (321-326): both hands are new, get_bet prompts
EnterRound ==
    /\ playerCards' = <<>>
    /\ bet' = 0
    /\ dealerCards' = <<>>
    /\ round' = NoRound(bankroll, stats)
    /\ dealt' = <<>>
    /\ pc' = "bet"

\* the tail of run (379-382): display_stats, save_stats
LeaveLoop(how) ==
    /\ file' = Saved(bankroll, stats)
    /\ exitBy' = how
    /\ pc' = "done"

\* run (357-370) up to the first prompt
Run ==
    /\ pc = "start"
    /\ IF bankroll > 0
       THEN /\ EnterRound
            /\ UNCHANGED <<file, exitBy>>
       ELSE /\ LeaveLoop("broke")
            /\ UNCHANGED <<playerCards, bet, dealerCards, round, dealt>>
    /\ UNCHANGED <<bankroll, stats, deck, input, rounds, total>>
    /\ UNCHANGED <<current_bets, placed, spun>>

----------------------------------------------------------------------------
(* get_bet: blackjack.py 212-223 *)

\* the amounts typed at the bet prompt
BetAmounts == (-1..MaxBet) \cup {bankroll + 1}

\* 'q': get_bet returns -1, play_round returns False, run breaks
GetBetQuit ==
    /\ pc = "bet"
    /\ input' = Line("q", 0)
    /\ LeaveLoop("quit")
    /\ UNCHANGED <<bankroll, stats, playerCards, bet, dealerCards, deck,
                   round, rounds, total>>
    /\ UNCHANGED <<dealt, current_bets, placed, spun>>

\* int(bet) raises ValueError: the prompt is repeated
GetBetNotANumber ==
    /\ pc = "bet"
    /\ input' = Line("text", 0)
    /\ UNCHANGED <<pc, bankroll, stats, playerCards, bet, dealerCards, deck,
                   file, round, rounds, exitBy, total>>
    /\ UNCHANGED <<dealt, current_bets, placed, spun>>

\* a number: Player.place_bet decides
GetBetAmount(amount) ==
    /\ pc = "bet"
    /\ rounds < MaxRounds
    /\ input' = Line("int", amount)
    /\ IF place_bet_ok(amount, bankroll)
       THEN /\ bet' = amount
            /\ bankroll' = bankroll - amount
            /\ round' = [round EXCEPT !.wager = amount]
            /\ pc' = "deal"
       ELSE UNCHANGED <<bet, bankroll, round, pc>>
    /\ UNCHANGED <<stats, playerCards, dealerCards, deck, file, rounds, exitBy,
                   total>>
    /\ UNCHANGED <<dealt, current_bets, placed, spun>>

----------------------------------------------------------------------------
(* dealer_turn: blackjack.py 264-274 *)

\* mutant of dealer_hits: the dealer also hits 17
dealer_hits_on_17(cards) == calculate_value(cards) <= 17

\* the condition of the while loop (269)
dealer_hits(cards) == calculate_value(cards) < 17

\* the hands and shoes dealer_turn can end with, from hand cards and shoe d
\* and the calls of Deck.deal made so far (log)
RECURSIVE dealer_turn(_, _, _)
dealer_turn(cards, d, log) ==
    IF dealer_hits(cards)
    THEN UNION {dealer_turn(Append(cards, card), deal(d, card),
                            Append(log, DealCall(d, "dealer", card))) :
                    card \in {c \in ShoeCards : CanDeal(d, c)}}
    ELSE {[cards |-> cards, deck |-> d, log |-> log]}

----------------------------------------------------------------------------
(* play_round: blackjack.py 319-355 *)

\* determine_winner called at call site via; the program then waits at
\* "Press Enter to continue..." (317)
SettleWith(after, branch, via, doubled) ==
    /\ bankroll' = after.bankroll
    /\ stats' = after.stats
    /\ round' = [round EXCEPT !.via = via,
                              !.branch = branch,
                              !.doubled = doubled]
    /\ rounds' = rounds + 1
    /\ pc' = "settled"

Settle(funds, pCards, wager, dCards, via, doubled) ==
    SettleWith(determine_winner(funds, stats, pCards, wager, dCards),
               Branch(pCards, dCards), via, doubled)

\* mutant of PlayerTurnTop: a busted hand ends the turn like a stand
PlayerTurnTop_bust_stands(cards) ==
    IF calculate_value(cards) >= 21 THEN "dealer" ELSE "player"

\* mutant of PlayerTurnTop: a total of 21 does not end the turn
PlayerTurnTop_asks_on_21(cards) ==
    IF is_busted(cards) THEN "bust" ELSE "player"

\* where player_turn goes at the head of its loop (230-234)
PlayerTurnTop(cards) ==
    IF is_busted(cards) THEN "bust"
    ELSE IF calculate_value(cards) = 21 THEN "dealer"
    ELSE "player"

\* the player's turn is over, or goes on, at where; a bust goes to
\* determine_winner at once (343-347)
TurnGoes(where, funds, wager, doubled) ==
    IF where = "bust"
    THEN Settle(funds, playerCards', wager, dealerCards', "bust", doubled)
    ELSE /\ pc' = where
         /\ bankroll' = funds
         /\ round' = [round EXCEPT !.doubled = doubled]
         /\ UNCHANGED <<stats, rounds>>

\* mutant of deal_order: the player gets both cards first
deal_order_player_first(i) == IF i \in {1, 2} THEN "player" ELSE "dealer"

\* the hand the i-th call of Deck.deal of the initial deal gives to (331-334)
deal_order(i) == IF i \in {1, 3} THEN "player" ELSE "dealer"

\* the calls of Deck.deal of the initial deal return cs[i..]: the shoe, the
\* history and the two hands after them
RECURSIVE deal_in_turn(_, _, _, _, _, _)
deal_in_turn(d, log, pCards, dCards, cs, i) ==
    IF i > Len(cs)
    THEN [ok |-> TRUE, deck |-> d, log |-> log, player |-> pCards,
          dealer |-> dCards]
    ELSE IF ~CanDeal(d, cs[i])
    THEN [ok |-> FALSE, deck |-> d, log |-> log, player |-> pCards,
          dealer |-> dCards]
    ELSE deal_in_turn(deal(d, cs[i]),
                      Append(log, DealCall(d, deal_order(i), cs[i])),
                      IF deal_order(i) = "player"
                      THEN Append(pCards, cs[i]) ELSE pCards,
                      IF deal_order(i) = "dealer"
                      THEN Append(dCards, cs[i]) ELSE dCards,
                      cs, i + 1)

\* the hands are dealt; the check for immediate blackjacks (337-339), and
\* player_turn up to its first prompt
Dealt(end) ==
    /\ end.ok
    /\ playerCards' = end.player
    /\ dealerCards' = end.dealer
    /\ deck' = end.deck
    /\ dealt' = end.log
    /\ IF is_blackjack(end.player) \/ is_blackjack(end.dealer)
       THEN Settle(bankroll, end.player, bet, end.dealer, "deal", FALSE)
       ELSE TurnGoes(PlayerTurnTop(end.player), bankroll, bet, FALSE)

\* the initial deal (330-334)
Deal ==
    /\ pc = "deal"
    /\ \E c1, c2, c3, c4 \in ShoeCards :
          Dealt(deal_in_turn(deck, dealt, playerCards, dealerCards,
                             <<c1, c2, c3, c4>>, 1))
    /\ UNCHANGED <<bet, file, input, exitBy, total>>
    /\ UNCHANGED <<current_bets, placed, spun>>

----------------------------------------------------------------------------
(* player_turn: blackjack.py 225-262 *)

\* mutant of can_double: the bankroll is not looked at
can_double_any_funds(cards, funds, wager) ==
    Len(cards) = 2

\* the condition of the 'd' branch (251)
can_double(cards, funds, wager) ==
    Len(cards) = 2 /\ funds >= wager

\* mutant of after_double: the turn goes on like after a hit
after_double_like_hit(cards) == PlayerTurnTop(cards)

\* return not self.player.hand.is_busted() (258)
after_double(cards) == IF is_busted(cards) THEN "bust" ELSE "dealer"

\* 'h'
Hit ==
    /\ pc = "player"
    /\ Len(playerCards) < 2 + MaxHits
    /\ input' = Line("h", 0)
    /\ \E card \in ShoeCards :
          /\ CanDeal(deck, card)
          /\ deck' = deal(deck, card)
          /\ playerCards' = Append(playerCards, card)
          /\ dealt' = Append(dealt, DealCall(deck, "player", card))
    /\ UNCHANGED <<bet, dealerCards, file, exitBy, total>>
    /\ TurnGoes(PlayerTurnTop(playerCards'), bankroll, bet, round.doubled)
    /\ UNCHANGED <<current_bets, placed, spun>>

\* 's'
Stand ==
    /\ pc = "player"
    /\ input' = Line("s", 0)
    /\ pc' = "dealer"
    /\ UNCHANGED <<bankroll, stats, playerCards, bet, dealerCards, deck, file,
                   round, rounds, exitBy, total>>
    /\ UNCHANGED <<dealt, current_bets, placed, spun>>

\* 'd': honoured when can_double holds, "Invalid choice!" otherwise
DoubleDown ==
    /\ pc = "player"
    /\ input' = Line("d", 0)
    /\ IF can_double(playerCards, bankroll, bet)
       THEN /\ bet' = bet * 2
            /\ \E card \in ShoeCards :
                  /\ CanDeal(deck, card)
                  /\ deck' = deal(deck, card)
                  /\ playerCards' = Append(playerCards, card)
                  /\ dealt' = Append(dealt, DealCall(deck, "player", card))
            /\ UNCHANGED dealerCards
            /\ TurnGoes(after_double(playerCards'), bankroll - bet, bet', TRUE)
       ELSE UNCHANGED <<bankroll, stats, bet, deck, playerCards, pc, round,
                        rounds, dealt, dealerCards>>
    /\ UNCHANGED <<file, exitBy, total>>
    /\ UNCHANGED <<current_bets, placed, spun>>

\* 'q': player_turn returns -1, play_round returns False, run breaks
PlayerQuit ==
    /\ pc = "player"
    /\ input' = Line("q", 0)
    /\ LeaveLoop("quit")
    /\ UNCHANGED <<bankroll, stats, playerCards, bet, dealerCards, deck,
                   round, rounds, total>>
    /\ UNCHANGED <<dealt, current_bets, placed, spun>>

\* anything else: "Invalid choice!"
InvalidChoice ==
    /\ pc = "player"
    /\ input' = Line("x", 0)
    /\ UNCHANGED <<pc, bankroll, stats, playerCards, bet, dealerCards, deck,
                   file, round, rounds, exitBy, total>>
    /\ UNCHANGED <<dealt, current_bets, placed, spun>>

\* dealer_turn, then determine_winner (350-353)
DealerTurn ==
    /\ pc = "dealer"
    /\ input' = Line("enter", 0)
    /\ \E end \in dealer_turn(dealerCards, deck, dealt) :
          /\ dealerCards' = end.cards
          /\ deck' = end.deck
          /\ dealt' = end.log
          /\ Settle(bankroll, playerCards, bet, end.cards, "dealer",
                    round.doubled)
    /\ UNCHANGED <<playerCards, bet, file, exitBy, total>>
    /\ UNCHANGED <<current_bets, placed, spun>>

----------------------------------------------------------------------------
(* The rest of run's loop: blackjack.py 369-377 *)

\* play_round returned True: save_stats, then broke or the next round
RoundEnd ==
    /\ pc = "settled"
    /\ input' = Line("enter", 0)
    /\ IF bankroll <= 0
       THEN /\ LeaveLoop("broke")
            /\ UNCHANGED <<playerCards, bet, dealerCards, round, dealt>>
       ELSE /\ file' = Saved(bankroll, stats)
            /\ EnterRound
            /\ UNCHANGED exitBy
    /\ UNCHANGED <<bankroll, stats, deck, rounds, total>>
    /\ UNCHANGED <<current_bets, placed, spun>>

Next ==
    \/ Run
    \/ GetBetQuit
    \/ GetBetNotANumber
    \/ \E amount \in BetAmounts : GetBetAmount(amount)
    \/ Deal
    \/ Hit
    \/ Stand
    \/ DoubleDown
    \/ PlayerQuit
    \/ InvalidChoice
    \/ DealerTurn
    \/ RoundEnd

Spec == Init /\ [][Next]_vars

----------------------------------------------------------------------------
(* The hand-value specification: Hand.add_card and Hand.calculate_value    *)
(* (blackjack.py 60-81) on every hand of at most MaxHandLen cards, of all  *)
(* the ranks.                                                              *)

HandCards == {Card(s, r) : s \in ShoeSuits, r \in RANKS}

InitValue ==
    /\ pc = "hand"
    /\ playerCards = <<>>
    /\ total = 0
    /\ bankroll = DefaultBankroll
    /\ stats = ZeroStats
    /\ bet = 0
    /\ dealerCards = <<>>
    /\ deck = Deck(num_decks)
    /\ file = NoFile
    /\ input = Line("none", 0)
    /\ round = NoRound(DefaultBankroll, ZeroStats)
    /\ rounds = 0
    /\ exitBy = "none"
    /\ dealt = <<>>
    /\ current_bets = <<>>
    /\ placed = 0
    /\ spun = <<>>

\* add_card, then the value on show
add_card(card) ==
    /\ pc = "hand"
    /\ Len(playerCards) < MaxHandLen
    /\ playerCards' = Append(playerCards, card)
    /\ total' = calculate_value(playerCards')
    /\ UNCHANGED <<pc, bankroll, stats, bet, dealerCards, deck, file, input,
                   round, rounds, exitBy>>
    /\ UNCHANGED <<dealt, current_bets, placed, spun>>

NextValue == \E card \in HandCards : add_card(card)

SpecValue == InitValue /\ [][NextValue]_vars

----------------------------------------------------------------------------
(* The shoe specification: Deck(n) for n of 1..MaxDecks decks, followed by *)
(* any number of calls of Deck.deal (blackjack.py 33-53).  dealt holds the *)
(* last call only.                                                         *)

InitShoe ==
    /\ pc = "shoe"
    /\ \E n \in 1..MaxDecks : deck = Deck(n)
    /\ dealt = <<>>
    /\ playerCards = <<>>
    /\ total = 0
    /\ bankroll = DefaultBankroll
    /\ stats = ZeroStats
    /\ bet = 0
    /\ dealerCards = <<>>
    /\ file = NoFile
    /\ input = Line("none", 0)
    /\ round = NoRound(DefaultBankroll, ZeroStats)
    /\ rounds = 0
    /\ exitBy = "none"
    /\ current_bets = <<>>
    /\ placed = 0
    /\ spun = <<>>

\* Deck.deal returns card
DeckDeal(card) ==
    /\ pc = "shoe"
    /\ CanDeal(deck, card)
    /\ deck' = deal(deck, card)
    /\ dealt' = <<DealCall(deck, "caller", card)>>
    /\ UNCHANGED <<pc, bankroll, stats, playerCards, bet, dealerCards, file,
                   input, round, rounds, exitBy, total, current_bets, placed,
                   spun>>

NextShoe == \E card \in ShoeCards : DeckDeal(card)

SpecShoe == InitShoe /\ [][NextShoe]_vars

----------------------------------------------------------------------------
(* Roulette: roulette.py.  The wheel and the bets.                         *)

\* the numbers of self.wheel_numbers (15-17)
wheel_numbers == 0..36

red_numbers ==
    {1, 3, 5, 7, 9, 12, 14, 16, 18, 19, 21, 23, 25, 27, 30, 32, 34, 36}

get_number_color(num) ==
    IF num = 0 THEN "green"
    ELSE IF num \in red_numbers THEN "red" ELSE "black"

\* the keys of bet_types (72-83)
BetChoices == {"1", "2", "3", "4", "5", "6", "7", "8", "9", "0"}

\* bet_types.get(choice); "" stands for None
get_bet_type(choice) ==
    CASE choice = "1" -> "red"
      [] choice = "2" -> "black"
      [] choice = "3" -> "even"
      [] choice = "4" -> "odd"
      [] choice = "5" -> "high"
      [] choice = "6" -> "low"
      [] choice = "7" -> "1-12"
      [] choice = "8" -> "13-24"
      [] choice = "9" -> "25-36"
      [] choice = "0" -> "zero"
      [] OTHER -> ""

\* mutant of check_win: the test for zero is missing from 'even'
check_win_zero_even(number, bet_type) ==
    CASE bet_type = "red" ->
            IF get_number_color(number) = "red" THEN 2 ELSE 0
      [] bet_type = "black" ->
            IF get_number_color(number) = "black" THEN 2 ELSE 0
      [] bet_type = "zero" -> IF number = 0 THEN 36 ELSE 0
      [] bet_type = "even" -> IF number % 2 = 0 THEN 2 ELSE 0
      [] bet_type = "odd" -> IF number % 2 = 1 THEN 2 ELSE 0
      [] bet_type = "high" -> IF number >= 19 THEN 2 ELSE 0
      [] bet_type = "low" -> IF 1 <= number /\ number <= 18 THEN 2 ELSE 0
      [] bet_type = "1-12" -> IF 1 <= number /\ number <= 12 THEN 3 ELSE 0
      [] bet_type = "13-24" -> IF 13 <= number /\ number <= 24 THEN 3 ELSE 0
      [] bet_type = "25-36" -> IF 25 <= number /\ number <= 36 THEN 3 ELSE 0
      [] OTHER -> 0

\* the payout multiplier of a bet of type bet_type when number comes up
check_win(number, bet_type) ==
    CASE bet_type = "red" ->
            IF get_number_color(number) = "red" THEN 2 ELSE 0
      [] bet_type = "black" ->
            IF get_number_color(number) = "black" THEN 2 ELSE 0
      [] bet_type = "zero" -> IF number = 0 THEN 36 ELSE 0
      [] bet_type = "even" ->
            IF number # 0 /\ number % 2 = 0 THEN 2 ELSE 0
      [] bet_type = "odd" -> IF number % 2 = 1 THEN 2 ELSE 0
      [] bet_type = "high" -> IF number >= 19 THEN 2 ELSE 0
      [] bet_type = "low" -> IF 1 <= number /\ number <= 18 THEN 2 ELSE 0
      [] bet_type = "1-12" -> IF 1 <= number /\ number <= 12 THEN 3 ELSE 0
      [] bet_type = "13-24" -> IF 13 <= number /\ number <= 24 THEN 3 ELSE 0
      [] bet_type = "25-36" -> IF 25 <= number /\ number <= 36 THEN 3 ELSE 0
      [] OTHER -> 0

\* {'type': bet_type, 'amount': amount}
Bet(bet_type, amount) == [type |-> bet_type, amount |-> amount]

\* what a bet of amount adds to total_win (198-200)
bet_win(amount, multiplier) ==
    IF multiplier > 0 THEN amount * multiplier ELSE 0

\* the loop of spin over bets[i..] (196-201): total_win
RECURSIVE total_win(_, _, _)
total_win(bets, i, result) ==
    IF i > Len(bets) THEN 0
    ELSE bet_win(bets[i].amount, check_win(result, bets[i].type))
            + total_win(bets, i + 1, result)

\* mutant of refund: the last bet only is given back
refund_last_only(bets, i) ==
    IF bets = <<>> THEN 0 ELSE bets[Len(bets)].amount

\* the loop of 'c' over bets[i..] (96-97): what the bankroll gets back
RECURSIVE refund(_, _)
refund(bets, i) ==
    IF i > Len(bets) THEN 0
    ELSE bets[i].amount + refund(bets, i + 1)

\* mutant of bet_accepted: a bet above the bankroll is taken
bet_accepted_nolimit(amount, funds) ==
    ~(amount < 1)

\* place_bet gets past its two checks of the amount (111-118)
bet_accepted(amount, funds) ==
    ~(amount > funds) /\ ~(amount < 1)

\* roulette_stats.json: what save_stats writes
RouletteSaved(funds) == [kind |-> "valid", bankroll |-> funds]

RouletteNoFile == [kind |-> "missing", bankroll |-> 0]

\* the records the model starts from
RouletteFiles ==
    {RouletteNoFile} \cup {RouletteSaved(b) : b \in 0..MaxLoad}

\* self.bankroll of RouletteGame.__init__
RouletteBankroll == 1000

\* RouletteGame.__init__ and load_stats: the bankroll after construction
roulette_load_stats(f) ==
    IF f.kind = "valid"
    THEN Get(f, "bankroll", RouletteBankroll)
    ELSE RouletteBankroll

----------------------------------------------------------------------------
(* Roulette: the state after RouletteGame(), and run (roulette.py 221-248) *)
(* One step is one pass of run's loop: place_bet, with the lines it reads, *)
(* spin when place_bet returned False, and the test for a bankroll of 0.   *)
(* input is the last line place_bet read.                                  *)

InitRoulette ==
    /\ pc = "r_start"
    /\ \E f \in RouletteFiles :
          /\ file = f
          /\ bankroll = roulette_load_stats(f)
    /\ current_bets = <<>>
    /\ placed = 0
    /\ spun = <<>>
    /\ input = Line("none", 0)
    /\ exitBy = "none"
    /\ stats = ZeroStats
    /\ playerCards = <<>>
    /\ bet = 0
    /\ dealerCards = <<>>
    /\ deck = Deck(num_decks)
    /\ round = NoRound(0, ZeroStats)
    /\ rounds = 0
    /\ total = 0
    /\ dealt = <<>>

\* the tail of run (246-248): save_stats
RouletteLeave(funds, how) ==
    /\ file' = RouletteSaved(funds)
    /\ exitBy' = how
    /\ pc' = "r_done"

\* the end of a pass of the loop (241-244, 234) with bankroll funds, the
\* pass having left record f in the file
EndPass(funds, f) ==
    IF funds <= 0
    THEN RouletteLeave(funds, "broke")
    ELSE /\ file' = f
         /\ pc' = "r_menu"
         /\ UNCHANGED exitBy

\* run up to the first menu (223-235)
RouletteRun ==
    /\ pc = "r_start"
    /\ IF bankroll > 0
       THEN /\ pc' = "r_menu"
            /\ UNCHANGED <<file, exitBy>>
       ELSE RouletteLeave(bankroll, "broke")
    /\ UNCHANGED <<bankroll, current_bets, placed, spun, input, stats,
                   playerCards, bet, dealerCards, deck, round, rounds, total,
                   dealt>>

\* 's' with no bet on the table: place_bet returns False, spin() says "No
\* bets placed!" and returns (160-163)
SpinNoBets ==
    /\ pc = "r_menu"
    /\ current_bets = <<>>
    /\ input' = Line("s", 0)
    /\ spun' = <<>>
    /\ EndPass(bankroll, file)
    /\ UNCHANGED <<bankroll, current_bets, placed, stats, playerCards, bet,
                   dealerCards, deck, round, rounds, total, dealt>>

\* what spin adds to the bankroll (203-208)
Credited(funds, won) == IF won > 0 THEN funds + won ELSE funds

\* 's' with bets on the table: place_bet returns False, spin() with the
\* wheel stopping on result (165-219)
Spin(result) ==
    /\ pc = "r_menu"
    /\ current_bets # <<>>
    /\ input' = Line("s", 0)
    /\ bankroll' = Credited(bankroll, total_win(current_bets, 1, result))
    /\ current_bets' = <<>>
    /\ spun' = <<result>>
    /\ EndPass(bankroll', RouletteSaved(bankroll'))
    /\ UNCHANGED <<placed, stats, playerCards, bet, dealerCards, deck, round,
                   rounds, total, dealt>>

\* 'c': every bet goes back to the bankroll
ClearBets ==
    /\ pc = "r_menu"
    /\ input' = Line("c", 0)
    /\ bankroll' = bankroll + refund(current_bets, 1)
    /\ current_bets' = <<>>
    /\ spun' = <<>>
    /\ EndPass(bankroll', file)
    /\ UNCHANGED <<placed, stats, playerCards, bet, dealerCards, deck, round,
                   rounds, total, dealt>>

\* the lines that are neither 's', 'c' nor a key of bet_types
OtherChoices == {"q", "x"}

\* get_bet_type returns None: "Invalid choice!"
InvalidBetType(choice) ==
    /\ pc = "r_menu"
    /\ get_bet_type(choice) = ""
    /\ input' = Line(choice, 0)
    /\ spun' = <<>>
    /\ EndPass(bankroll, file)
    /\ UNCHANGED <<bankroll, current_bets, placed, stats, playerCards, bet,
                   dealerCards, deck, round, rounds, total, dealt>>

\* the amounts typed at "Bet amount"
StakeAmounts == (-1..MaxStake) \cup {bankroll + 1}

\* a bet type and an amount that passes the two checks (111-118): the bet
\* is placed
PlaceBet(choice, amount) ==
    /\ pc = "r_menu"
    /\ get_bet_type(choice) # ""
    /\ bet_accepted(amount, bankroll)
    /\ placed < MaxBets
    /\ input' = Line("int", amount)
    /\ spun' = <<>>
    /\ bankroll' = bankroll - amount
    /\ current_bets' = Append(current_bets, Bet(get_bet_type(choice), amount))
    /\ placed' = placed + 1
    /\ EndPass(bankroll', file)
    /\ UNCHANGED <<stats, playerCards, bet, dealerCards, deck, round, rounds,
                   total, dealt>>

\* any bet type and an amount that fails one of the checks: "Insufficient
\* funds!" or "Minimum bet is $1!"
RefuseBet(amount) ==
    /\ pc = "r_menu"
    /\ ~bet_accepted(amount, bankroll)
    /\ input' = Line("int", amount)
    /\ spun' = <<>>
    /\ EndPass(bankroll, file)
    /\ UNCHANGED <<bankroll, current_bets, placed, stats, playerCards, bet,
                   dealerCards, deck, round, rounds, total, dealt>>

\* any bet type and a line int() refuses: "Invalid amount!"
PlaceBetNotANumber ==
    /\ pc = "r_menu"
    /\ input' = Line("text", 0)
    /\ spun' = <<>>
    /\ EndPass(bankroll, file)
    /\ UNCHANGED <<bankroll, current_bets, placed, stats, playerCards, bet,
                   dealerCards, deck, round, rounds, total, dealt>>

NextRoulette ==
    \/ RouletteRun
    \/ SpinNoBets
    \/ \E result \in wheel_numbers : Spin(result)
    \/ ClearBets
    \/ \E choice \in OtherChoices : InvalidBetType(choice)
    \/ \E choice \in BetChoices, amount \in StakeAmounts :
          PlaceBet(choice, amount)
    \/ \E amount \in StakeAmounts : RefuseBet(amount)
    \/ PlaceBetNotANumber

SpecRoulette == InitRoulette /\ [][NextRoulette]_vars

----------------------------------------------------------------------------
(* The load specification: the constructor of either game on any content   *)
(* of its file (blackjack.py 156-171, roulette.py 13-36).  It starts when  *)
(* the defaults are set (Player(), roulette.py 14) and load_stats is about *)
(* to be called.  A file is missing, or is not JSON ("corrupt": json.load  *)
(* raises), or is JSON but not an object ("notdict": data.get raises), or  *)
(* is an object ("valid") with or without the keys save_stats writes.      *)

CountedStats ==
    [wins : 0..MaxCount, losses : 0..MaxCount, pushes : 0..MaxCount,
     blackjacks : 0..MaxCount]

Unreadable == {"missing", "corrupt", "notdict"}

LoadFiles ==
    {[kind |-> k] : k \in Unreadable}
        \cup {[kind |-> "valid"]}
        \cup {[kind |-> "valid", bankroll |-> b] : b \in 0..MaxLoad}
        \cup {[kind |-> "valid", stats |-> s] : s \in CountedStats}
        \cup {Saved(b, s) : b \in 0..MaxLoad, s \in CountedStats}

RouletteLoadFiles ==
    {[kind |-> k] : k \in Unreadable}
        \cup {[kind |-> "valid"]}
        \cup {RouletteSaved(b) : b \in 0..MaxLoad}

InitLoad ==
    /\ \/ pc = "l_new" /\ file \in LoadFiles /\ bankroll = DefaultBankroll
       \/ /\ pc = "l_rnew"
          /\ file \in RouletteLoadFiles
          /\ bankroll = RouletteBankroll
    /\ stats = ZeroStats
    /\ playerCards = <<>>
    /\ bet = 0
    /\ dealerCards = <<>>
    /\ deck = Deck(num_decks)
    /\ input = Line("none", 0)
    /\ round = NoRound(0, ZeroStats)
    /\ rounds = 0
    /\ exitBy = "none"
    /\ total = 0
    /\ dealt = <<>>
    /\ current_bets = <<>>
    /\ placed = 0
    /\ spun = <<>>

\* BlackjackGame.__init__ calls load_stats (160)
LoadStats ==
    /\ pc = "l_new"
    /\ bankroll' = load_stats(file).bankroll
    /\ stats' = load_stats(file).stats
    /\ pc' = "l_start"
    /\ UNCHANGED <<playerCards, bet, dealerCards, deck, file, input, round,
                   rounds, exitBy, total, dealt, current_bets, placed, spun>>

\* RouletteGame.__init__ calls load_stats (20)
RouletteLoadStats ==
    /\ pc = "l_rnew"
    /\ bankroll' = roulette_load_stats(file)
    /\ pc' = "l_rstart"
    /\ UNCHANGED <<stats, playerCards, bet, dealerCards, deck, file, input,
                   round, rounds, exitBy, total, dealt, current_bets, placed,
                   spun>>

NextLoad == LoadStats \/ RouletteLoadStats

SpecLoad == InitLoad /\ [][NextLoad]_vars

----------------------------------------------------------------------------
(* The two programs as they are started: __main__ of blackjack.py          *)
(* (384-391) and of roulette.py (250-257).  A KeyboardInterrupt can reach  *)
(* run wherever it is; the handler saves the record and the process ends.  *)

\* except KeyboardInterrupt of blackjack.py (388-391)
KeyboardInterrupt ==
    /\ pc \in {"start", "bet", "deal", "player", "dealer", "settled"}
    /\ input' = Line("^C", 0)
    /\ file' = Saved(bankroll, stats)
    /\ exitBy' = "interrupt"
    /\ pc' = "done"
    /\ UNCHANGED <<bankroll, stats, playerCards, bet, dealerCards, deck,
                   round, rounds, total, dealt, current_bets, placed, spun>>

\* except KeyboardInterrupt of roulette.py (254-257)
RouletteInterrupt ==
    /\ pc \in {"r_start", "r_menu"}
    /\ input' = Line("^C", 0)
    /\ file' = RouletteSaved(bankroll)
    /\ exitBy' = "interrupt"
    /\ pc' = "r_done"
    /\ UNCHANGED <<bankroll, stats, playerCards, bet, dealerCards, deck,
                   round, rounds, total, dealt, current_bets, placed, spun>>

InitMain == Init \/ InitRoulette

NextMain ==
    \/ Next
    \/ KeyboardInterrupt
    \/ NextRoulette
    \/ RouletteInterrupt

SpecMain == InitMain /\ [][NextMain]_vars

----------------------------------------------------------------------------
(* What the claims speak of *)

\* exactly 2 cards totalling 21
TwoCard21(cards) == Len(cards) = 2 /\ calculate_value(cards) = 21

\* the rule of the settlement precedence list that applies to two hands
RuleFor(pCards, dCards) ==
    IF TwoCard21(pCards) /\ TwoCard21(dCards) THEN 1
    ELSE IF TwoCard21(pCards) THEN 2
    ELSE IF TwoCard21(dCards) THEN 3
    ELSE IF calculate_value(pCards) > 21 THEN 4
    ELSE IF calculate_value(dCards) > 21 THEN 5
    ELSE 6

\* what that rule gives the player
ResultFor(pCards, dCards) ==
    LET r == RuleFor(pCards, dCards)
        pv == calculate_value(pCards)
        dv == calculate_value(dCards)
    IN  CASE r = 1 -> "push"
          [] r = 2 -> "win"
          [] r = 3 -> "loss"
          [] r = 4 -> "loss"
          [] r = 5 -> "win"
          [] r = 6 -> IF pv > dv THEN "win"
                      ELSE IF pv < dv THEN "loss" ELSE "push"

\* the rule a branch of determine_winner stands for
RuleOfBranch(b) == IF b >= 6 THEN 6 ELSE b

\* the counters after one more win, loss or push
Counted(st, result) ==
    CASE result = "win" -> [st EXCEPT !.wins = @ + 1]
      [] result = "loss" -> [st EXCEPT !.losses = @ + 1]
      [] result = "push" -> [st EXCEPT !.pushes = @ + 1]

\* the counters of wins, losses and pushes only
Ledger(st) == <<st.wins, st.losses, st.pushes>>

\* a round has been settled and the program shows the result
Settled == pc = "settled"

\* the result of the settled round, read from the counters
Won == stats.wins = round.stats.wins + 1
Lost == stats.losses = round.stats.losses + 1
Pushed == stats.pushes = round.stats.pushes + 1

----------------------------------------------------------------------------
(* C1: in every settled round the branch determine_winner took and the     *)
(* counter it raised are those of the first rule that applies, in the      *)
(* order both blackjack, player blackjack, dealer blackjack, player bust,  *)
(* dealer bust, compare totals; blackjack is a 2-card 21.                  *)
C1_Precedence ==
    Settled =>
        /\ RuleOfBranch(round.branch) = RuleFor(playerCards, dealerCards)
        /\ Ledger(stats) =
              Ledger(Counted(round.stats, ResultFor(playerCards, dealerCards)))
        /\ (TwoCard21(playerCards) /\ ~TwoCard21(dealerCards)
               => round.branch = 2)
        /\ (Len(playerCards) >= 3 => round.branch \notin {1, 2})

\* a 2-card player 21 against a dealer 20 was settled
C1_Witness ==
    /\ Settled
    /\ TwoCard21(playerCards)
    /\ calculate_value(dealerCards) = 20

(* C2: when only the player has blackjack, twice the net gain of the round *)
(* is three times the wager, and wins and blackjacks both rose by 1.       *)
C2_BlackjackPays3to2 ==
    (Settled /\ TwoCard21(playerCards) /\ ~TwoCard21(dealerCards)) =>
        /\ 2 * (bankroll - round.bankroll) = 3 * round.wager
        /\ stats.wins = round.stats.wins + 1
        /\ stats.blackjacks = round.stats.blackjacks + 1

(* C3: when the loop was left by a quit, the bankroll and the counters are *)
(* those of the start of the round that was quit.                          *)
C3_QuitChangesNothing ==
    (pc = "done" /\ exitBy = "quit") =>
        /\ bankroll = round.bankroll
        /\ stats = round.stats

(* C4: in a settled round that is no blackjack win, with w the final wager *)
(* (twice the bet after a double-down), the bankroll is the bankroll       *)
(* before the bet plus w on a win, minus w on a loss, unchanged on a push. *)
C4_NetResult ==
    (Settled /\ ~(TwoCard21(playerCards) /\ ~TwoCard21(dealerCards))) =>
        /\ bet = (IF round.doubled THEN 2 * round.wager ELSE round.wager)
        /\ Won => bankroll = round.bankroll + bet
        /\ Lost => bankroll = round.bankroll - bet
        /\ Pushed => bankroll = round.bankroll

\* a push after a double-down
C4_Witness ==
    /\ Settled
    /\ round.doubled
    /\ Pushed
    /\ bankroll = round.bankroll

(* C5: a settled round raised exactly one of wins, losses, pushes, by 1;   *)
(* blackjacks rose by 1 if the round was a player-only blackjack and did   *)
(* not change otherwise; a round that was quit changed no counter.         *)
C5_CountedOnce ==
    /\ Settled =>
          /\ \E result \in {"win", "loss", "push"} :
                Ledger(stats) = Ledger(Counted(round.stats, result))
          /\ stats.blackjacks = round.stats.blackjacks +
                (IF TwoCard21(playerCards) /\ ~TwoCard21(dealerCards)
                 THEN 1 ELSE 0)
    /\ (pc = "done" /\ exitBy = "quit") => stats = round.stats
    /\ pc \in {"bet", "deal", "player", "dealer"} => stats = round.stats

\* a win with a 21 of three cards: no blackjack is counted
C5_Witness ==
    /\ Settled
    /\ Won
    /\ Len(playerCards) = 3
    /\ calculate_value(playerCards) = 21
    /\ stats.blackjacks = round.stats.blackjacks

(* C6: once the player has doubled down the hand holds exactly 3 cards and *)
(* the wager is twice the bet, the bankroll was debited by the bet once    *)
(* more, and the round is settled at once if the hand busted (the dealer   *)
(* keeps 2 cards), and goes to the dealer otherwise.                       *)
C6_DoubleDown ==
    round.doubled =>
        /\ Len(playerCards) = 3
        /\ bet = 2 * round.wager
        /\ pc = "dealer" => bankroll = round.bankroll - 2 * round.wager
        /\ IF calculate_value(playerCards) > 21
           THEN /\ pc \in {"settled", "done"}
                /\ round.via = "bust"
                /\ Len(dealerCards) = 2
                /\ bankroll = round.bankroll - 2 * round.wager
           ELSE \/ pc = "dealer"
                \/ pc \in {"settled", "done"} /\ round.via = "dealer"

\* a doubled hand that did not bust and stands below 17
C6_Witness ==
    /\ round.doubled
    /\ pc = "dealer"
    /\ calculate_value(playerCards) < 17

(* C7: a 'd' is honoured (wager debited and doubled, one card drawn) only  *)
(* with exactly 2 cards in hand and a bankroll of at least the wager; any  *)
(* other 'd' changes neither bankroll, wager, hands nor shoe and the       *)
(* player is asked again.                                                  *)
C7_DoubleOnlyWhenLegal ==
    [][(pc = "player" /\ input'.cmd = "d") =>
          IF Len(playerCards) = 2 /\ bankroll >= bet
          THEN /\ round'.doubled
               /\ bankroll' = bankroll - bet
               /\ bet' = 2 * bet
               /\ Len(playerCards') = 3
          ELSE /\ UNCHANGED <<bankroll, bet, playerCards, dealerCards, deck,
                              stats, round>>
               /\ pc' = "player"]_vars

\* a 'd' with 2 cards and too small a bankroll was refused
C7_Witness ==
    /\ pc = "player"
    /\ input.cmd = "d"
    /\ Len(playerCards) = 2
    /\ bankroll < bet

(* C8: when a round is settled after the dealer's turn the dealer's total  *)
(* is at least 17 and was below 17 before each card the dealer drew; the   *)
(* dealer holds 2 cards until then.                                        *)
C8_DealerRule ==
    /\ round.via = "dealer" =>
          /\ calculate_value(dealerCards) >= 17
          /\ \A k \in 2..(Len(dealerCards) - 1) :
                calculate_value(SubSeq(dealerCards, 1, k)) < 17
    /\ pc \in {"player", "dealer"} => Len(dealerCards) = 2

\* the dealer stood on a soft 17
C8_Witness ==
    /\ round.via = "dealer"
    /\ Len(dealerCards) = 2
    /\ calculate_value(dealerCards) = 17
    /\ \E i \in 1..2 : dealerCards[i].rank = "A"

(* C9: at the bet prompt a number is accepted iff it is in 1..bankroll;    *)
(* an accepted w is taken from the bankroll, stored as the wager and the   *)
(* round goes to the deal; a refused number or a line that is no number    *)
(* changes nothing and the prompt is repeated.                             *)
C9_BetPrompt ==
    [][(pc = "bet" /\ input'.cmd \in {"int", "text"}) =>
          IF input'.cmd = "int" /\ input'.amount \in 1..bankroll
          THEN /\ bankroll' = bankroll - input'.amount
               /\ bet' = input'.amount
               /\ pc' = "deal"
               /\ UNCHANGED <<stats, playerCards, dealerCards>>
          ELSE /\ UNCHANGED <<bankroll, bet, playerCards, dealerCards, stats>>
               /\ pc' = "bet"]_vars

\* a bet above the bankroll was refused
C9_Witness ==
    /\ pc = "bet"
    /\ input.cmd = "int"
    /\ input.amount > bankroll

----------------------------------------------------------------------------
(* C10 *)

\* the points of a card with its ace counted as 1
LowPoints(card) ==
    IF card.rank = "A" THEN 1
    ELSE IF card.rank \in {"J", "Q", "K"} THEN 10
    ELSE RankInt(card.rank)

RECURSIVE SumLow(_, _)
SumLow(cards, S) ==
    IF S = {} THEN 0
    ELSE LET i == CHOOSE x \in S : TRUE
         IN  LowPoints(cards[i]) + SumLow(cards, S \ {i})

\* the totals a hand can be counted as: some of its aces count 11
Totals(cards) ==
    LET aces == Cardinality({i \in DOMAIN cards : cards[i].rank = "A"})
    IN  {SumLow(cards, DOMAIN cards) + 10 * k : k \in 0..aces}

\* the largest total up to 21, or else the smallest total
BestTotal(cards) ==
    LET fit == {t \in Totals(cards) : t <= 21}
    IN  IF fit # {}
        THEN CHOOSE t \in fit : \A u \in fit : u <= t
        ELSE CHOOSE t \in Totals(cards) : \A u \in Totals(cards) : t <= u

\* cards with the cards at i and i + 1 exchanged
Exchanged(cards, i) ==
    [k \in DOMAIN cards |->
        IF k = i THEN cards[i + 1] ELSE IF k = i + 1 THEN cards[i] ELSE cards[k]]

(* C10: the value of every hand is the largest total up to 21 that         *)
(* counting each ace as 1 or 11 gives, or the smallest total when there is *)
(* none, and exchanging two neighbouring cards does not change it.         *)
C10_HandValue ==
    pc = "hand" =>
        /\ total = BestTotal(playerCards)
        /\ \A i \in 1..(Len(playerCards) - 1) :
              calculate_value(Exchanged(playerCards, i)) = total

\* the hand A, A, 9 is worth 21
C10_Witness ==
    /\ pc = "hand"
    /\ Len(playerCards) = 3
    /\ playerCards[1].rank = "A"
    /\ playerCards[2].rank = "A"
    /\ playerCards[3].rank = "9"
    /\ total = 21

----------------------------------------------------------------------------
(* C11 *)

\* a call of Deck.deal has returned in the shoe specification
Drawn == pc = "shoe" /\ dealt # <<>>

\* all the cards of the shoe's decks
FullShoe == deck.num_decks * CardsPerDeck

(* C11 as claimed: after a call of Deck.deal at least 10 cards remain, or  *)
(* the call rebuilt the shoe and all the cards of its decks but one        *)
(* remain.                                                                 *)
C11_ShoeInvariant ==
    Drawn =>
        \/ DeckLen(deck) >= 10
        \/ dealt[1].rebuilt /\ DeckLen(deck) = FullShoe - 1

(* C11 as amended: after a call of Deck.deal at least 9 cards remain, or   *)
(* the call rebuilt the shoe and all the cards of its decks but one        *)
(* remain.                                                                 *)
C11_ShoeInvariantFrom9 ==
    Drawn =>
        \/ DeckLen(deck) >= 9
        \/ dealt[1].rebuilt /\ DeckLen(deck) = FullShoe - 1

\* a card was drawn from a shoe of 10 cards: 9 remain and nothing was rebuilt
C11_Witness ==
    /\ Drawn
    /\ ~dealt[1].rebuilt
    /\ DeckLen(deck) = 9

----------------------------------------------------------------------------
(* C12 *)

\* the copies of card c a hand holds
CopiesIn(cards, c) == Cardinality({i \in DOMAIN cards : cards[i] = c})

\* the copies of card c in the two hands and in the shoe
CopiesInPlay(c) ==
    CopiesIn(playerCards, c) + CopiesIn(dealerCards, c) + deck.cards[c]

(* C12: of every card, the copies in the player's hand, in the dealer's    *)
(* hand and in the shoe are together at most the number of decks.          *)
C12_NoCardReused ==
    \A c \in ShoeCards : CopiesInPlay(c) <= deck.num_decks

----------------------------------------------------------------------------
(* C13 *)

BetTypes ==
    {"red", "black", "even", "odd", "high", "low", "1-12", "13-24", "25-36",
     "zero"}

\* the numbers a category of bets wins on
Category(t) ==
    CASE t = "red" -> red_numbers
      [] t = "black" -> (1..36) \ red_numbers
      [] t = "even" -> {n \in 1..36 : n % 2 = 0}
      [] t = "odd" -> {n \in 1..36 : n % 2 = 1}
      [] t = "high" -> 19..36
      [] t = "low" -> 1..18
      [] t = "1-12" -> 1..12
      [] t = "13-24" -> 13..24
      [] t = "25-36" -> 25..36
      [] t = "zero" -> {0}

\* the multiplier m(category, r) of the payout table
Multiplier(t, r) ==
    IF r \notin Category(t) THEN 0
    ELSE IF t \in {"1-12", "13-24", "25-36"} THEN 3
    ELSE IF t = "zero" THEN 36
    ELSE 2

\* the sum over the bets at the positions S of amount x m(category, r)
RECURSIVE SumPayouts(_, _, _)
PayoutWith(bets, S, r, i) ==
    bets[i].amount * Multiplier(bets[i].type, r) + SumPayouts(bets, S \ {i}, r)

SumPayouts(bets, S, r) ==
    IF S = {} THEN 0 ELSE PayoutWith(bets, S, r, CHOOSE x \in S : TRUE)

\* the step is a spin with bets on the table
SpinWithBets == pc = "r_menu" /\ input'.cmd = "s" /\ current_bets # <<>>

(* C13: a spin with bets stops on a result of 0..36, adds to the bankroll  *)
(* the sum over the bets of amount x m(category, result), and leaves the   *)
(* list of bets empty.                                                     *)
C13_SpinPays ==
    [][SpinWithBets =>
          /\ Len(spun') = 1
          /\ spun'[1] \in 0..36
          /\ bankroll' =
                bankroll + SumPayouts(current_bets, DOMAIN current_bets, spun'[1])
          /\ current_bets' = <<>>]_vars

\* 1 on zero and 1 on another category, the wheel stopped on 0: 36 came back
C13_Witness ==
    /\ pc = "r_menu"
    /\ spun = <<0>>
    /\ placed = 2
    /\ bankroll = RouletteBankroll - 2 + 36

----------------------------------------------------------------------------
(* C14 *)

\* the sum of the amounts of the bets at the positions S
RECURSIVE SumAmounts(_, _)
AmountWith(bets, S, i) == bets[i].amount + SumAmounts(bets, S \ {i})

SumAmounts(bets, S) ==
    IF S = {} THEN 0 ELSE AmountWith(bets, S, CHOOSE x \in S : TRUE)

\* the money on the table
Staked(bets) == SumAmounts(bets, DOMAIN bets)

(* C14: an amount a typed for a bet is accepted iff 1 <= a <= bankroll; an *)
(* accepted bet takes a from the bankroll and is appended to the bets, a   *)
(* refused amount or a line that is no number changes nothing; 'c' gives   *)
(* every bet back and empties the list; bankroll plus the money on the     *)
(* table is the same before and after each of these.                       *)
C14_PlaceAndClearConserve ==
    [][(pc = "r_menu" /\ input'.cmd \in {"int", "text", "c"}) =>
          /\ bankroll' + Staked(current_bets') = bankroll + Staked(current_bets)
          /\ IF input'.cmd = "c"
             THEN /\ bankroll' = bankroll + Staked(current_bets)
                  /\ current_bets' = <<>>
             ELSE IF input'.cmd = "int" /\ input'.amount \in 1..bankroll
             THEN /\ bankroll' = bankroll - input'.amount
                  /\ \E t \in BetTypes :
                        current_bets' =
                            Append(current_bets, Bet(t, input'.amount))
             ELSE UNCHANGED <<bankroll, current_bets>>]_vars

\* two bets were placed and cleared, and no spin has paid or saved anything:
\* the bankroll is the one the game started with
C14_Witness ==
    /\ pc = "r_menu"
    /\ input.cmd = "c"
    /\ placed = 2
    /\ current_bets = <<>>
    /\ file.kind = "missing"
    /\ bankroll = RouletteBankroll

----------------------------------------------------------------------------
(* C15: a 'q' typed at the bet menu ends the loop of the game, and the     *)
(* record then holds the final bankroll.                                   *)
C15_QuitEndsGame ==
    [][(pc = "r_menu" /\ input'.cmd = "q") =>
          /\ pc' = "r_done"
          /\ file'.kind = "valid"
          /\ file'.bankroll = bankroll']_vars

----------------------------------------------------------------------------
(* C16 *)

\* the record of Blackjack holds the bankroll and the four counters in
\* memory, and nothing else
BlackjackRecordIsLedger ==
    /\ file.kind = "valid"
    /\ DOMAIN file = {"kind", "bankroll", "stats"}
    /\ file.bankroll = bankroll
    /\ file.stats = stats

\* the record of Roulette holds the bankroll in memory, and nothing else
RouletteRecordIsLedger ==
    /\ file.kind = "valid"
    /\ DOMAIN file = {"kind", "bankroll"}
    /\ file.bankroll = bankroll

\* play_round has returned from a settled round and run has gone on to the
\* next one
AfterSettledRound == pc = "bet" /\ rounds >= 1

\* a spin of Roulette has just resolved bets
AfterSpinWithBets == pc \in {"r_menu", "r_done"} /\ spun # <<>>

(* C16: when play_round has returned from a settled round of Blackjack,    *)
(* when a spin of Roulette has resolved bets, and when either game has     *)
(* ended (by quit, by an empty bankroll or by an interrupt at any prompt), *)
(* the record is the bankroll (and for Blackjack the counters) in memory.  *)
C16_PersistenceFollowsLedger ==
    /\ AfterSettledRound => BlackjackRecordIsLedger
    /\ pc = "done" => BlackjackRecordIsLedger
    /\ AfterSpinWithBets => RouletteRecordIsLedger
    /\ pc = "r_done" => RouletteRecordIsLedger

\* Blackjack was interrupted while the player was acting on a 2-card hand:
\* the record holds the bankroll less the wager
C16_Witness ==
    /\ pc = "done"
    /\ exitBy = "interrupt"
    /\ Len(playerCards) = 2
    /\ round.wager > 0
    /\ file.bankroll = round.bankroll - round.wager

----------------------------------------------------------------------------
(* C17 *)

\* the record is one save_stats of Blackjack wrote
BlackjackRecord == file.kind = "valid" /\ DOMAIN file = DOMAIN Saved(0, ZeroStats)

\* the record is one save_stats of Roulette wrote
RouletteRecord == file.kind = "valid" /\ DOMAIN file = DOMAIN RouletteSaved(0)

(* C17: after construction on a missing or unreadable record the bankroll  *)
(* is 1000 and (Blackjack) all four counters are 0; on a record the game   *)
(* wrote, the bankroll and counters are those of the record.  The          *)
(* constructor completes on every content of the file.                     *)
C17_LoadBestEffort ==
    /\ pc = "l_new" => ENABLED LoadStats
    /\ pc = "l_rnew" => ENABLED RouletteLoadStats
    /\ pc \in {"l_start", "l_rstart"} /\ file.kind \in Unreadable
          => bankroll = 1000 /\ stats = ZeroStats
    /\ pc = "l_start" /\ BlackjackRecord
          => bankroll = file.bankroll /\ stats = file.stats
    /\ pc = "l_rstart" /\ RouletteRecord => bankroll = file.bankroll

\* Blackjack was constructed on a record with counters other than 0 and a
\* bankroll other than 1000
C17_Witness ==
    /\ pc = "l_start"
    /\ BlackjackRecord
    /\ stats.wins = 1 /\ stats.blackjacks = 1
    /\ bankroll = 1
    /\ file.bankroll = 1

----------------------------------------------------------------------------
(* C18 *)

\* the hands the calls of Deck.deal of the round gave their cards to
DealtTo == [i \in 1..Len(dealt) |-> dealt[i].to]

\* the cards of the calls of Deck.deal of the round
DealtCards == [i \in 1..Len(dealt) |-> dealt[i].card]

\* the round is past its initial deal
RoundDealt == pc \in {"player", "dealer", "settled"}

\* one of the two initial hands is a blackjack
InitialBlackjack ==
    \/ is_blackjack(SubSeq(playerCards, 1, 2))
    \/ is_blackjack(SubSeq(dealerCards, 1, 2))

(* C18: the first four cards drawn in a round went to player, dealer,      *)
(* player, dealer, and they are the first two cards of each hand; when one *)
(* of the initial hands is a blackjack the round is settled from the deal, *)
(* with four cards drawn and two in each hand, and the player is never     *)
(* asked.                                                                  *)
C18_InitialDeal ==
    RoundDealt =>
        /\ Len(dealt) >= 4
        /\ SubSeq(DealtTo, 1, 4) = <<"player", "dealer", "player", "dealer">>
        /\ SubSeq(playerCards, 1, 2) = <<DealtCards[1], DealtCards[3]>>
        /\ SubSeq(dealerCards, 1, 2) = <<DealtCards[2], DealtCards[4]>>
        /\ InitialBlackjack =>
              /\ pc = "settled"
              /\ round.via = "deal"
              /\ Len(dealt) = 4
              /\ Len(playerCards) = 2
              /\ Len(dealerCards) = 2

\* the dealer holds a blackjack and the player 12: the round is settled
\* though the player could have acted
C18_Witness ==
    /\ pc = "settled"
    /\ round.via = "deal"
    /\ is_blackjack(dealerCards)
    /\ calculate_value(playerCards) = 12
    /\ Len(dealt) = 4

----------------------------------------------------------------------------
(* C19 *)

(* C19: a busted player is never asked and the dealer never acts on a      *)
(* busted player: a round whose player total exceeds 21 is settled from    *)
(* the player's turn, as a loss of the wager, with the dealer holding the  *)
(* two cards of the deal.                                                  *)
C19_BustSettlesAtOnce ==
    RoundDealt /\ is_busted(playerCards) =>
        /\ pc = "settled"
        /\ round.via = "bust"
        /\ Len(dealerCards) = 2
        /\ Len(dealt) = Len(playerCards) + 2
        /\ stats = [round.stats EXCEPT !.losses = @ + 1]
        /\ bankroll = round.bankroll - bet

\* the player busted by a double-down while the dealer shows 12 and would
\* have had to draw
C19_Witness ==
    /\ pc = "settled"
    /\ is_busted(playerCards)
    /\ round.doubled
    /\ calculate_value(dealerCards) = 12
    /\ Len(dealerCards) = 2

----------------------------------------------------------------------------
(* C20 *)

(* C20: the player is asked only on a total of at most 20; a hand of three *)
(* or more cards that totals 21 has ended the player's turn, and the round *)
(* went on to the dealer's turn and is settled from there.                 *)
C20_AskedUpTo20 ==
    /\ pc = "player" => calculate_value(playerCards) <= 20
    /\ RoundDealt /\ calculate_value(playerCards) = 21
                  /\ Len(playerCards) >= 3
          => \/ pc = "dealer"
             \/ pc = "settled" /\ round.via = "dealer"

\* a hit brought 20 to 21 and the dealer is about to act
C20_Witness ==
    /\ pc = "dealer"
    /\ input = Line("h", 0)
    /\ Len(playerCards) = 3
    /\ calculate_value(playerCards) = 21
    /\ calculate_value(SubSeq(playerCards, 1, 2)) = 20

----------------------------------------------------------------------------
(* C21 *)

(* C21: when run has left its loop of Roulette because the bankroll is 0,  *)
(* no bet is left on the table: every accepted bet was resolved by a spin  *)
(* or refunded by a clear.                                                 *)
C21_BrokeOnlyWithoutBets ==
    pc = "r_done" /\ exitBy = "broke" => current_bets = <<>>

----------------------------------------------------------------------------
(* C22 *)

(* C22: in both games the bankroll is never below 0, and Blackjack asks    *)
(* for a bet only on a bankroll of at least 1, where a wager of 1 is       *)
(* accepted.                                                               *)
C22_BankrollNeverNegative ==
    /\ bankroll >= 0
    /\ pc = "bet" => bankroll >= 1 /\ place_bet_ok(1, bankroll)

\* a round of Blackjack was pushed on a wager of the whole bankroll, and
\* the next round asks for a bet on a bankroll of 1
C22_Witness ==
    /\ pc = "bet"
    /\ rounds = 1
    /\ bankroll = 1
    /\ stats.pushes = LoadedStats.pushes + 1
    /\ file = Saved(1, stats)

====
